---- MODULE Spec2Model ----
(***************************************************************************)
(* Model of the result_iter crate (src/src/lib.rs): the EndIfErrIter       *)
(* adapter, fail_slow_if_err, fail_fast_if_err and MultiError, driven by   *)
(* a caller in the style of tests/tests.rs over a scripted producer.       *)
(***************************************************************************)
EXTENDS Integers, Sequences, FiniteSets

\* ---------------------------------------------------------------- bounds
MaxLen == 3        \* longest producer script
MaxPulls == 5      \* most next() calls a free caller makes on the adapter
MaxExtra == 2      \* turns of a loop followed past the first lap of an endless producer

\* ------------------------------------------------- values: Option<Result<T, E>>
T == {1, 2}        \* success payloads
E == {7, 8}        \* error values

None == [tag |-> "None", val |-> 0]
Ok(a) == [tag |-> "Ok", val |-> a]
Err(b) == [tag |-> "Err", val |-> b]

is_err(n) == n.tag = "Err"
is_ok(n) == n.tag = "Ok"

\* What one next() of a producer may return: an element, or None.  A Vec's
\* iterator returns None only at its end; a general Iterator may return None
\* and later Some again, which a script shows as a None entry.
Items == {Ok(a) : a \in T} \cup {Err(b) : b \in E}
Entries == Items \cup {None}

RECURSIVE SeqsUpTo(_, _)
SeqsUpTo(S, n) ==
    IF n = 0 THEN {<<>>}
    ELSE LET shorter == SeqsUpTo(S, n - 1)
         IN shorter \cup {Append(s, x) : s \in {q \in shorter : Len(q) = n - 1}, x \in S}

Scripts == SeqsUpTo(Entries, MaxLen)

VARIABLES
    src,        \* the producer's script (the elements the iterator will give)
    endless,    \* the producer repeats its script forever instead of ending
    op,         \* the call the caller makes on the producer
    pc,         \* position inside that call
    pos,        \* number of script entries the producer has handed out
    pulls,      \* number of next() calls made on the producer
    state,      \* EndIfErrIter.1 (State), "NoAdapter" before end_if_err() is called
    rets,       \* every value returned by next() of the iterator being consumed
    collected,  \* the Vec built by collect()
    goodies,    \* fail_slow_if_err local
    baddies,    \* fail_slow_if_err local
    still_ok,   \* fail_slow_if_err local
    result,     \* the value the call returned
    prev        \* the caller's saved result of the fail_slow_if_err call made before

vars == <<src, endless, op, pc, pos, pulls, state, rets, collected, goodies, baddies,
          still_ok, result, prev>>

Pending == [tag |-> "Pending", val |-> <<>>]
Panic == [tag |-> "Panic", val |-> <<>>]

\* ------------------------------------------------------------ the producer
\* self.0.next() / the for loop's next(): the producer hands out its next
\* script entry; past the end of the script it returns None and stays there,
\* unless it is endless: then it starts the script over.
IterNext(s, p) ==
    IF p < Len(s) THEN [ret |-> s[p + 1], pos |-> p + 1]
    ELSE IF endless /\ Len(s) > 0 THEN [ret |-> s[1], pos |-> 1]
    ELSE [ret |-> None, pos |-> p]

\* --------------------------------------------------------------- the adapter
\* a constructor that starts the flag at State::End
EndIfErrNew_End == "End"

\* end_if_err(): EndIfErrIter(self, State::Continue)
EndIfErrNew == "Continue"

\* a next() that forgets to set State::End on a failure
EndIfErrIterNext_NeverEnds(s, p, st) ==
    IF st = "Continue"
    THEN LET n == IterNext(s, p)
         IN [ret |-> n.ret, pos |-> n.pos, pulled |-> 1, state |-> st]
    ELSE [ret |-> None, pos |-> p, pulled |-> 0, state |-> st]

\* a next() whose State::End arm still pulls the producer and drops the value
EndIfErrIterNext_PullsInEnd(s, p, st) ==
    LET n == IterNext(s, p)
    IN IF st = "Continue"
       THEN [ret |-> n.ret, pos |-> n.pos, pulled |-> 1,
             state |-> IF n.ret # None /\ is_err(n.ret) THEN "End" ELSE st]
       ELSE [ret |-> None, pos |-> n.pos, pulled |-> 1, state |-> st]

\* a next() that tests is_ok() where the code tests is_err()
EndIfErrIterNext_EndsOnOk(s, p, st) ==
    IF st = "Continue"
    THEN LET n == IterNext(s, p)
         IN [ret |-> n.ret, pos |-> n.pos, pulled |-> 1,
             state |-> IF n.ret # None /\ is_ok(n.ret) THEN "End" ELSE st]
    ELSE [ret |-> None, pos |-> p, pulled |-> 0, state |-> st]

\* a next() that ends on the pull that meets the failure, dropping it
EndIfErrIterNext_SwallowsErr(s, p, st) ==
    IF st = "Continue"
    THEN LET n == IterNext(s, p)
         IN IF n.ret # None /\ is_err(n.ret)
            THEN [ret |-> None, pos |-> n.pos, pulled |-> 1, state |-> "End"]
            ELSE [ret |-> n.ret, pos |-> n.pos, pulled |-> 1, state |-> st]
    ELSE [ret |-> None, pos |-> p, pulled |-> 0, state |-> st]

\* EndIfErrIter::next
EndIfErrIterNext(s, p, st) ==
    IF st = "Continue"
    THEN LET n == IterNext(s, p)
         IN IF n.ret # None
            THEN [ret |-> n.ret, pos |-> n.pos, pulled |-> 1,
                  state |-> IF is_err(n.ret) THEN "End" ELSE st]
            ELSE [ret |-> None, pos |-> n.pos, pulled |-> 1, state |-> st]
    ELSE [ret |-> None, pos |-> p, pulled |-> 0, state |-> st]

\* ----------------------------------------------------------- fail_slow_if_err
\* a loop body that keeps only the first error
FailSlowBody_FirstErrOnly(el, g, b, ok) ==
    IF is_ok(el)
    THEN IF ~ok THEN [goodies |-> g, baddies |-> b, still_ok |-> ok]
         ELSE [goodies |-> Append(g, el.val), baddies |-> b, still_ok |-> ok]
    ELSE [goodies |-> g, baddies |-> IF ok THEN Append(b, el.val) ELSE b,
          still_ok |-> FALSE]

\* a loop body that keeps pushing goodies after an error
FailSlowBody_KeepsPushing(el, g, b, ok) ==
    IF is_ok(el)
    THEN [goodies |-> Append(g, el.val), baddies |-> b, still_ok |-> ok]
    ELSE [goodies |-> g, baddies |-> Append(b, el.val), still_ok |-> FALSE]

\* the match inside the for loop
FailSlowBody(el, g, b, ok) ==
    IF is_ok(el)
    THEN IF ~ok THEN [goodies |-> g, baddies |-> b, still_ok |-> ok]
         ELSE [goodies |-> Append(g, el.val), baddies |-> b, still_ok |-> ok]
    ELSE [goodies |-> g, baddies |-> Append(b, el.val), still_ok |-> FALSE]

\* a loop that breaks at the first failure
ForLoopNext_BreakOnErr(el) == IF el = None \/ is_err(el) THEN "finish" ELSE "loop"

\* for el in self: the loop runs its body on Some(el) and ends on None
ForLoopNext(el) == IF el = None THEN "finish" ELSE "loop"

\* MultiError::new, len, into_iter
MultiErrorNew(errors) == errors
MultiErrorLen(me) == Len(me)
MultiErrorIntoIter(me) == me

\* MultiError's description() and Display::fmt: both read self.0[0] and hand
\* over to the first error; indexing an empty Vec panics
MultiErrorFirst(me) ==
    IF Len(me) = 0 THEN Panic ELSE [tag |-> "First", val |-> me[1]]

\* a return whose is_empty() test is inverted
FailSlowFinish_Inverted(g, b) ==
    IF b # <<>> THEN [tag |-> "Ok", val |-> g]
    ELSE [tag |-> "Err", val |-> b]

\* the if after the loop
FailSlowFinish(g, b) ==
    IF b = <<>> THEN [tag |-> "Ok", val |-> g]
    ELSE [tag |-> "Err", val |-> MultiErrorNew(b)]

\* ----------------------------------------------------------- fail_fast_if_err
\* .map_err(|e| e.into_iter().next().expect(""))
MapErrFirst(r) ==
    IF r.tag = "Err"
    THEN LET it == MultiErrorIntoIter(r.val)
         IN IF Len(it) = 0 THEN Panic ELSE [tag |-> "Err", val |-> Head(it)]
    ELSE r

\* ------------------------------------------------------------------- actions
AdapterOps == {"pull", "collect", "fail_fast"}

\* a loop over an endless producer is followed for MaxExtra turns past the
\* producer's first lap
CanTurn == ~endless \/ Len(rets) < Len(src) + MaxExtra

Init ==
    /\ src \in Scripts
    /\ endless \in BOOLEAN
    /\ op \in {"pull", "collect", "fail_slow", "fail_fast"}
    /\ pc = IF op = "fail_slow" THEN "loop" ELSE "call"
    /\ pos = 0
    /\ pulls = 0
    /\ state = "NoAdapter"
    /\ rets = <<>>
    /\ collected = <<>>
    /\ goodies = <<>>
    /\ baddies = <<>>
    /\ still_ok = TRUE
    /\ result = Pending
    /\ prev = Pending

\* the caller (or fail_fast_if_err) wraps the producer: self.end_if_err()
CallEndIfErr ==
    /\ pc = "call"
    /\ op \in AdapterOps
    /\ state' = EndIfErrNew
    /\ pc' = IF op = "fail_fast" THEN "loop" ELSE op
    /\ UNCHANGED <<src, endless, op, pos, pulls, rets, collected, goodies, baddies,
                   still_ok, result, prev>>

\* the caller calls next() on the adapter, as often as it likes
Pull ==
    /\ pc = "pull"
    /\ Len(rets) < MaxPulls
    /\ LET n == EndIfErrIterNext(src, pos, state)
       IN /\ rets' = Append(rets, n.ret)
          /\ pos' = n.pos
          /\ pulls' = pulls + n.pulled
          /\ state' = n.state
    /\ UNCHANGED <<src, endless, op, pc, collected, goodies, baddies, still_ok, result, prev>>

\* .end_if_err().collect::<Vec<_>>(): next() until the first None
Collect ==
    /\ pc = "collect"
    /\ CanTurn
    /\ LET n == EndIfErrIterNext(src, pos, state)
       IN /\ rets' = Append(rets, n.ret)
          /\ pos' = n.pos
          /\ pulls' = pulls + n.pulled
          /\ state' = n.state
          /\ IF n.ret = None
             THEN /\ result' = [tag |-> "Vec", val |-> collected]
                  /\ pc' = "done"
                  /\ UNCHANGED collected
             ELSE /\ collected' = Append(collected, n.ret)
                  /\ UNCHANGED <<result, pc>>
    /\ UNCHANGED <<src, endless, op, goodies, baddies, still_ok, prev>>

\* one turn of fail_slow_if_err's for loop; self is the producer itself, or
\* the adapter when called from fail_fast_if_err
FailSlowStep ==
    /\ pc = "loop"
    /\ CanTurn
    /\ LET n == IF op = "fail_fast"
                THEN EndIfErrIterNext(src, pos, state)
                ELSE LET r == IterNext(src, pos)
                     IN [ret |-> r.ret, pos |-> r.pos, pulled |-> 1, state |-> state]
       IN /\ rets' = Append(rets, n.ret)
          /\ pos' = n.pos
          /\ pulls' = pulls + n.pulled
          /\ state' = n.state
          /\ pc' = ForLoopNext(n.ret)
          /\ IF pc' = "loop"
             THEN LET acc == FailSlowBody(n.ret, goodies, baddies, still_ok)
                  IN /\ goodies' = acc.goodies
                     /\ baddies' = acc.baddies
                     /\ still_ok' = acc.still_ok
             ELSE UNCHANGED <<goodies, baddies, still_ok>>
    /\ UNCHANGED <<src, endless, op, collected, result, prev>>

\* fail_slow_if_err returns
FailSlowReturn ==
    /\ pc = "finish"
    /\ result' = FailSlowFinish(goodies, baddies)
    /\ pc' = IF op = "fail_fast" THEN "map_err" ELSE "done"
    /\ UNCHANGED <<src, endless, op, pos, pulls, state, rets, collected, goodies, baddies,
                   still_ok, prev>>

\* fail_fast_if_err collapses the MultiError and returns
FailFastMapErr ==
    /\ pc = "map_err"
    /\ result' = MapErrFirst(result)
    /\ pc' = "done"
    /\ UNCHANGED <<src, endless, op, pos, pulls, state, rets, collected, goodies, baddies,
                   still_ok, prev>>

\* the caller keeps fail_slow_if_err's result and calls fail_fast_if_err on
\* a fresh iterator over the same elements
Rerun ==
    /\ pc = "done"
    /\ op = "fail_slow"
    /\ prev' = result
    /\ op' = "fail_fast"
    /\ pc' = "call"
    /\ pos' = 0
    /\ pulls' = 0
    /\ rets' = <<>>
    /\ goodies' = <<>>
    /\ baddies' = <<>>
    /\ still_ok' = TRUE
    /\ result' = Pending
    /\ UNCHANGED <<src, endless, state, collected>>

Next ==
    \/ CallEndIfErr
    \/ Pull
    \/ Collect
    \/ FailSlowStep
    \/ FailSlowReturn
    \/ FailFastMapErr
    \/ Rerun

Spec == Init /\ [][Next]_vars

\* the program is sequential: a call that can take its next step takes it
FairSpec == Spec /\ WF_vars(Next)

\* ------------------------------------------------- vocabulary of the properties
\* the script is a finite sequence of result-values (a Vec's iterator)
NoGap(s) == \A i \in 1..Len(s) : s[i] # None

HasErr(s) == \E i \in 1..Len(s) : is_err(s[i])

\* index of the first Failure of s
FirstErr(s) == CHOOSE i \in 1..Len(s) : is_err(s[i]) /\ \A j \in 1..(i - 1) : ~is_err(s[j])

\* number of elements up to and including the first Failure, or all of them
PrefixLen(s) == IF HasErr(s) THEN FirstErr(s) ELSE Len(s)

ValsOf(s) == [i \in 1..Len(s) |-> s[i].val]
ErrorsOf(s) == ValsOf(SelectSeq(s, is_err))
PayloadsOf(s) == ValsOf(SelectSeq(s, is_ok))

\* an adapter exists and some next() of it has returned None / a Failure
AdapterEnded == state # "NoAdapter" /\ \E i \in 1..Len(rets) : rets[i] = None
YieldedErr == state # "NoAdapter" /\ HasErr(rets)

\* this step is a next() call on the adapter
AdapterPulled == state # "NoAdapter" /\ Len(rets') = Len(rets) + 1

\* ------------------------------------------------------------------- claims
\* C1: collecting end_if_err(S) over a finite sequence S yields exactly the
\* first k elements of S, unchanged and in order, where k is the index of
\* the first Failure, or the length of S when S has no Failure.
C1_CollectIsPrefix ==
    (op = "collect" /\ pc = "done" /\ NoGap(src))
        => result = [tag |-> "Vec", val |-> SubSeq(src, 1, PrefixLen(src))]

\* a collect that cut the sequence short of elements after the first Failure
C1_Witness ==
    /\ op = "collect" /\ pc = "done" /\ NoGap(src)
    /\ HasErr(src) /\ FirstErr(src) = 2 /\ Len(src) = 3
    /\ Len(result.val) = 2

\* C2 (as stated): once a next() of the adapter has returned None, for
\* whichever reason, every later next() returns None and never calls the
\* producer's next().
C2_Original ==
    [][(AdapterEnded /\ AdapterPulled)
          => (rets'[Len(rets')] = None /\ pulls' = pulls)]_vars

\* C2 (amended): once the adapter has yielded a Failure, every later next()
\* returns None and never calls the producer's next(); after a None that
\* came from the producer itself the flag is still Continue, and every later
\* next() calls the producer's next() once and returns what it returned.
C2_EndIsFinalAfterErr ==
    [][AdapterPulled =>
          /\ YieldedErr => (rets'[Len(rets')] = None /\ pulls' = pulls /\ pos' = pos)
          /\ (AdapterEnded /\ ~YieldedErr) =>
                /\ state = "Continue"
                /\ pulls' = pulls + 1
                /\ rets'[Len(rets')] = IterNext(src, pos).ret]_vars

\* the adapter passed a None of the producer, went on to yield a Failure and
\* then returned None twice without touching the producer
C2_Witness ==
    /\ op = "pull"
    /\ Len(rets) = 4 /\ rets[1] = None /\ is_err(rets[2])
    /\ rets[3] = None /\ rets[4] = None
    /\ pulls = 2

\* C3: after the adapter has yielded the first Failure of S, no later next()
\* of the adapter calls the producer: its position stays one past the first
\* Failure, whatever comes next in S.
C3_NoPullPastFirstErr ==
    /\ [](YieldedErr => (HasErr(src) /\ pos = FirstErr(src) /\ pulls = FirstErr(rets)))
    /\ [][YieldedErr => (pos' = pos /\ pulls' = pulls)]_vars

\* the adapter was pulled three more times after the Failure, with elements
\* still waiting in the producer
C3_Witness ==
    /\ op = "pull" /\ YieldedErr
    /\ pos = 2 /\ Len(src) = 3 /\ is_ok(src[1]) /\ is_err(src[2]) /\ is_ok(src[3])
    /\ Len(rets) = 5

\* C4: over a finite sequence with m >= 1 Failures, fail_slow_if_err returns
\* Err(MultiError) whose len() is m and whose into_iter() gives the m errors
\* in encounter order; no Success payload is in the result.
C4_FailSlowAllErrors ==
    (op = "fail_slow" /\ pc = "done" /\ NoGap(src) /\ HasErr(src))
        => /\ result.tag = "Err"
           /\ MultiErrorLen(result.val) = Len(SelectSeq(src, is_err))
           /\ MultiErrorIntoIter(result.val) = ErrorsOf(src)
           /\ \A i \in 1..Len(result.val) : result.val[i] \notin T

\* two different errors around a success
C4_Witness ==
    /\ op = "fail_slow" /\ pc = "done" /\ NoGap(src)
    /\ Len(src) = 3 /\ src[1] = Err(8) /\ is_ok(src[2]) /\ src[3] = Err(7)
    /\ result.val = <<8, 7>>

\* C5: over a finite sequence with no Failure (the empty one included),
\* fail_slow_if_err returns Ok with the payloads of all elements in order.
C5_FailSlowAllOk ==
    (op = "fail_slow" /\ pc = "done" /\ NoGap(src) /\ ~HasErr(src))
        => result = [tag |-> "Ok", val |-> PayloadsOf(src)]

C5_Witness ==
    /\ op = "fail_slow" /\ pc = "done" /\ NoGap(src) /\ ~HasErr(src)
    /\ Len(src) = 3 /\ src[1] # src[2]
    /\ result.tag = "Ok" /\ Len(result.val) = 3

\* C6: over a finite sequence, fail_fast_if_err succeeds exactly when
\* fail_slow_if_err does; both successes carry the same sequence; when both
\* fail, fail_fast_if_err's error is the first of fail_slow_if_err's errors.
C6_FastAgreesWithSlow ==
    (op = "fail_fast" /\ pc = "done" /\ prev.tag # "Pending" /\ NoGap(src))
        => /\ (result.tag = "Ok") <=> (prev.tag = "Ok")
           /\ (result.tag = "Ok" /\ prev.tag = "Ok") => result.val = prev.val
           /\ (result.tag # "Ok" /\ prev.tag # "Ok") =>
                 /\ result.tag = "Err" /\ prev.tag = "Err"
                 /\ result.val = MultiErrorIntoIter(prev.val)[1]

\* both calls failed on a sequence with two different errors
C6_Witness ==
    /\ op = "fail_fast" /\ pc = "done" /\ NoGap(src)
    /\ prev.tag = "Err" /\ Len(prev.val) = 2 /\ prev.val[1] # prev.val[2]
    /\ result.tag = "Err"

\* C7: inside fail_fast_if_err, a failed fail-slow aggregation holds exactly
\* one error, so expect() never meets an empty MultiError and never panics,
\* whatever the producer.
C7_FailFastNeverPanics ==
    /\ (op = "fail_fast" /\ pc = "map_err" /\ result.tag = "Err")
          => MultiErrorLen(result.val) = 1
    /\ result.tag # "Panic"

\* the closure is about to unwrap the MultiError of a producer with two Failures
C7_Witness ==
    /\ op = "fail_fast" /\ pc = "map_err" /\ result.tag = "Err"
    /\ Len(SelectSeq(src, is_err)) >= 2

\* C8: fail_slow_if_err pulls every one of the n elements of a finite
\* sequence exactly once and in order, then the end signal, before it
\* returns, the elements after the first Failure included.
C8_FailSlowDrains ==
    (op = "fail_slow" /\ pc = "done" /\ NoGap(src))
        => /\ rets = Append(src, None)
           /\ pos = Len(src)
           /\ pulls = Len(src) + 1

\* a Failure first, then a success and another Failure, all pulled
C8_Witness ==
    /\ op = "fail_slow" /\ pc = "done" /\ NoGap(src)
    /\ Len(src) = 3 /\ is_err(src[1]) /\ is_ok(src[2]) /\ is_err(src[3])
    /\ pulls = 4

\* C9 (as stated): when fail_fast_if_err returns, the producer it was called
\* on has handed out every element it has.
C9_FailFastDrains ==
    (op = "fail_fast" /\ pc = "done" /\ NoGap(src)) => pos = Len(src)

\* C10: the adapter's flag starts at Continue, becomes End exactly on the
\* next() in which the producer first yields a Failure (that next() still
\* returns the Failure), never goes back to Continue, and is End exactly
\* when the adapter has already yielded a Failure.
C10_FlagTracksFirstErr ==
    /\ [](state # "NoAdapter" => (state \in {"Continue", "End"}
                                   /\ (state = "End" <=> HasErr(rets))))
    /\ [][(state = "NoAdapter" /\ state' # "NoAdapter")
             => (state' = "Continue" /\ rets' = rets)]_vars
    /\ [][state = "End" => state' = "End"]_vars
    /\ [][(state = "Continue" /\ state' = "End")
             => /\ rets' = Append(rets, src[pos'])
                /\ pos' = pos + 1
                /\ is_err(src[pos'])
                /\ ~HasErr(rets)]_vars

\* the flag went to End on the second pull and stayed there
C10_Witness ==
    /\ op = "pull" /\ state = "End"
    /\ Len(rets) = 4 /\ is_ok(rets[1]) /\ is_err(rets[2])
    /\ rets[3] = None /\ rets[4] = None

\* C11: a next() of the adapter made while the flag is Continue calls the
\* producer's next() exactly once and returns exactly what it returned, and
\* touches nothing but the flag; a next() made while the flag is End does
\* not call the producer.
C11_OnePullPerPull ==
    [][AdapterPulled =>
          /\ state = "Continue" =>
                /\ pulls' = pulls + 1
                /\ rets' = Append(rets, IterNext(src, pos).ret)
                /\ pos' = IterNext(src, pos).pos
          /\ state = "End" =>
                /\ pulls' = pulls
                /\ pos' = pos
                /\ rets' = Append(rets, None)
          /\ UNCHANGED <<src, endless, op, prev>>
          /\ op = "pull" => UNCHANGED <<pc, collected, goodies, baddies, still_ok, result>>]_vars

\* a success, the Failure and the producer's own None each came through
\* one pull, and two pulls in End made none
C11_Witness ==
    /\ op = "pull" /\ Len(rets) = 5 /\ pulls = 3
    /\ rets[1] = None /\ is_ok(rets[2]) /\ is_err(rets[3])
    /\ rets[4] = None /\ rets[5] = None

\* the elements fail_slow_if_err's loop has processed so far
Processed == SelectSeq(rets, LAMBDA n : n # None)

InFailSlow == op \in {"fail_slow", "fail_fast"} /\ pc \in {"loop", "finish"}

\* C12: after any prefix of the input, goodies holds the payloads of the
\* successes before the prefix's first Failure, baddies holds the errors of
\* all its Failures, both in order, and still_ok is true exactly when
\* baddies is empty; still_ok never goes back to true.
C12_LoopInvariant ==
    /\ [](InFailSlow =>
            /\ goodies = PayloadsOf(SubSeq(Processed, 1,
                            IF HasErr(Processed) THEN FirstErr(Processed) - 1
                            ELSE Len(Processed)))
            /\ baddies = ErrorsOf(Processed)
            /\ still_ok <=> (baddies = <<>>))
    /\ [][(InFailSlow /\ ~still_ok /\ op' = op) => ~still_ok']_vars

\* a success kept before the Failure and a success dropped after it
C12_Witness ==
    /\ op = "fail_slow" /\ pc = "loop" /\ ~still_ok
    /\ Len(rets) = 3 /\ is_ok(rets[1]) /\ is_err(rets[2]) /\ is_ok(rets[3])
    /\ goodies = <<rets[1].val>> /\ baddies = <<rets[2].val>>

\* C13: every MultiError fail_slow_if_err returns, the one made inside
\* fail_fast_if_err included, holds at least one error, so the first-element
\* access of description() and Display is in bounds.
C13_MultiErrorNonEmpty ==
    (/\ result.tag = "Err"
     /\ \/ op = "fail_slow" /\ pc = "done"
        \/ op = "fail_fast" /\ pc = "map_err")
        => /\ MultiErrorLen(result.val) >= 1
           /\ baddies # <<>>
           /\ MultiErrorFirst(result.val) = [tag |-> "First", val |-> ErrorsOf(Processed)[1]]

\* a MultiError returned to the caller after a lone Failure among successes
C13_Witness ==
    /\ op = "fail_slow" /\ pc = "done" /\ result.tag = "Err"
    /\ Len(result.val) = 1 /\ Len(rets) = 4 /\ is_err(rets[2])

\* C14: fail_fast_if_err returns on every producer that yields a Failure at
\* a finite index, endless ones included, having pulled exactly the elements
\* up to and including that first Failure; fail_slow_if_err returns only
\* after the producer has signaled its end, so never on an endless one.
C14_Termination ==
    /\ (op = "fail_fast" /\ NoGap(src) /\ HasErr(src))
          ~> (op = "fail_fast" /\ pc = "done")
    /\ []((op = "fail_fast" /\ pc = "done" /\ NoGap(src) /\ HasErr(src))
             => /\ pos = FirstErr(src)
                /\ pulls = FirstErr(src)
                /\ Processed = SubSeq(src, 1, FirstErr(src))
                /\ result = [tag |-> "Err", val |-> src[FirstErr(src)].val])
    /\ []((op = "fail_slow" /\ pc \in {"finish", "done"})
             => (rets # <<>> /\ rets[Len(rets)] = None /\ pulls = Len(rets)))
    /\ []((op = "fail_slow" /\ endless /\ NoGap(src) /\ src # <<>>) => pc = "loop")

\* fail_fast_if_err has returned on an endless producer, two pulls in
C14_Witness ==
    /\ op = "fail_fast" /\ pc = "done" /\ endless /\ NoGap(src)
    /\ Len(src) = 3 /\ is_ok(src[1]) /\ is_err(src[2]) /\ is_ok(src[3])
    /\ pulls = 2 /\ result.tag = "Err"

====
